---- MODULE Spec2Model ----
(***************************************************************************)
(* nbfree: keeps a Jupyter notebook (NB_DIR/<stem>.ipynb) and a flat       *)
(* Python script (PY_DIR/<stem>.py) synchronized.                          *)
(*                                                                         *)
(* Text is modelled as a sequence of one-character strings, so that the    *)
(* string operations of the code (startswith, splitlines, split, strip,    *)
(* slicing, join) are computed character by character.                     *)
(***************************************************************************)
EXTENDS Integers, Sequences, FiniteSets, TLC

(***************************************************************************)
(* Bounds of the model.                                                    *)
(***************************************************************************)
\* longest generated cell text of the conversion specification
MaxLen == 2
\* most cells of a generated document of the conversion specification
MaxCells == 2
\* most consecutive runs of main
MaxRuns == 2

(***************************************************************************)
(* Python str operations.                                                  *)
(***************************************************************************)
\* str.startswith
StartsWith(s, p) == Len(s) >= Len(p) /\ SubSeq(s, 1, Len(p)) = p

\* str.endswith
EndsWith(s, p) == Len(s) >= Len(p) /\ SubSeq(s, Len(s) - Len(p) + 1, Len(s)) = p

\* the characters str.strip() removes
IsSpace(c) == c \in {" ", "\n", "\t"}

\* str.strip(): drop leading and trailing whitespace
Strip(s) ==
  LET keep == {i \in 1..Len(s) : ~IsSpace(s[i])}
  IN  IF keep = {} THEN <<>>
      ELSE SubSeq(s, CHOOSE i \in keep : \A j \in keep : i <= j,
                     CHOOSE i \in keep : \A j \in keep : i >= j)

\* index of the first occurrence of sep in s, 0 when there is none (str.find + 1)
Find(s, sep) ==
  LET hits == {i \in 1..(Len(s) - Len(sep) + 1) : SubSeq(s, i, i + Len(sep) - 1) = sep}
  IN  IF hits = {} THEN 0 ELSE CHOOSE i \in hits : \A j \in hits : i <= j

\* str.split(sep): the pieces between non-overlapping occurrences, left to right
RECURSIVE Split(_, _)
Split(s, sep) ==
  LET at == Find(s, sep)
  IN  IF at = 0 THEN <<s>>
      ELSE <<SubSeq(s, 1, at - 1)>> \o Split(SubSeq(s, at + Len(sep), Len(s)), sep)

\* str.splitlines() for texts whose only line boundary is "\n": no empty last line
RECURSIVE SplitLines(_)
SplitLines(s) ==
  LET eol == Find(s, <<"\n">>)
  IN  IF s = <<>> THEN <<>>
      ELSE IF eol = 0 THEN <<s>>
      ELSE <<SubSeq(s, 1, eol - 1)>> \o SplitLines(SubSeq(s, eol + 1, Len(s)))

\* sep.join(parts)
RECURSIVE Join(_, _)
Join(sep, parts) ==
  IF parts = <<>> THEN <<>>
  ELSE IF Len(parts) = 1 THEN parts[1]
  ELSE parts[1] \o sep \o Join(sep, Tail(parts))

\* s[3:-3]
Slice3(s) == SubSeq(s, 4, Len(s) - 3)

\* [f(x) for x in seq]
MapSeq(F(_), seq) == [i \in 1..Len(seq) |-> F(seq[i])]

(***************************************************************************)
(* Module constants.                                                       *)
(***************************************************************************)
HEADER_COMMENT == <<"#", " ", "%", "%", "\n">>

HASH_PREFIX == <<"#", " ", "%", "%", " ", "N", "O", "T", "E", "B", "O", "O", "K",
                 "_", "H", "A", "S", "H", "=">>

\* the '"""' bracket of a markdown chunk
TRIPLE_QUOTE == <<"\"", "\"", "\"">>

\* Python's None, where the other values are texts
None == <<"None">>

(***************************************************************************)
(* Content hash: md5(json.dumps(source).encode()).hexdigest()              *)
(***************************************************************************)
\* json.dumps of one str: quoted, with '"', '\' and newline escaped
JsonEscape(c) ==
  CASE c = "\"" -> <<"\\", "\"">>
    [] c = "\\" -> <<"\\", "\\">>
    [] c = "\n" -> <<"\\", "n">>
    [] c = "\t" -> <<"\\", "t">>
    [] OTHER -> <<c>>

RECURSIVE Concat(_)
Concat(parts) == IF parts = <<>> THEN <<>> ELSE parts[1] \o Concat(Tail(parts))

JsonStr(s) == <<"\"">> \o Concat(MapSeq(JsonEscape, s)) \o <<"\"">>

\* json.dumps of a list of str
JsonDumps(source) == <<"[">> \o Join(<<",", " ">>, MapSeq(JsonStr, source)) \o <<"]">>

\* the two hexadecimal digits of an encoded byte
HexByte(c) ==
  CASE c = "a" -> <<"6", "1">>
    [] c = "b" -> <<"6", "2">>
    [] c = "n" -> <<"6", "e">>
    [] c = "t" -> <<"7", "4">>
    [] c = " " -> <<"2", "0">>
    [] c = "\n" -> <<"0", "a">>
    [] c = "\t" -> <<"0", "9">>
    [] c = "\"" -> <<"2", "2">>
    [] c = "#" -> <<"2", "3">>
    [] c = "%" -> <<"2", "5">>
    [] c = "," -> <<"2", "c">>
    [] c = "[" -> <<"5", "b">>
    [] c = "\\" -> <<"5", "c">>
    [] c = "]" -> <<"5", "d">>
    [] c = "=" -> <<"3", "d">>
    [] c = "_" -> <<"5", "f">>
    [] c = "A" -> <<"4", "1">>
    [] c = "B" -> <<"4", "2">>
    [] c = "E" -> <<"4", "5">>
    [] c = "H" -> <<"4", "8">>
    [] c = "K" -> <<"4", "b">>
    [] c = "N" -> <<"4", "e">>
    [] c = "O" -> <<"4", "f">>
    [] c = "S" -> <<"5", "3">>
    [] c = "T" -> <<"5", "4">>

\* hashlib.md5(bytes).hexdigest(): a digest of hexadecimal digits.  md5 is taken
\* to be collision-free, so the digest is modelled by an injective map of the
\* bytes to hexadecimal digits (the hexadecimal form of the bytes).
Md5Hex(bytes) == Concat(MapSeq(HexByte, bytes))

(***************************************************************************)
(* NotebookFile: [path, nb_data]; nb_data is [cells, metadata], a cell is  *)
(* [cell_type, source] with outputs and execution_count for code cells.    *)
(* A path is <<directory, stem, suffix>>.  execution_count is <<>> for     *)
(* None and <<k>> for the number k.                                        *)
(***************************************************************************)
\* the metadata from_code_cells gives every document it builds
SyntheticMetadata == "python3"

\* the markdown cell of from_code_cells; metadata {} is <<>>
MarkdownCell(text) == [cell_type |-> "markdown", metadata |-> <<>>, source |-> text]

\* the code cell of from_code_cells, not executed
CodeCell(text) == [cell_type |-> "code", metadata |-> <<>>, source |-> text,
                   outputs |-> <<>>, execution_count |-> <<>>]

\* one cell of from_code_cells
CellOfChunk(raw_cell) ==
  IF StartsWith(raw_cell, TRIPLE_QUOTE) /\ EndsWith(raw_cell, TRIPLE_QUOTE)
  THEN MarkdownCell(Slice3(raw_cell))
  ELSE CodeCell(raw_cell)

\* NotebookFile.from_code_cells
from_code_cells(path, raw_cells) ==
  [path |-> path,
   nb_data |-> [cells |-> MapSeq(CellOfChunk, raw_cells),
                metadata |-> SyntheticMetadata]]

\* NotebookFile.compute_hash
compute_hash(nb) ==
  LET SourceOf(c) == c.source
  IN  Md5Hex(JsonDumps(MapSeq(SourceOf, nb.nb_data.cells)))

\* the chunk write_to_py makes of one cell; cells of other types make none
ChunkOfCell(cell) ==
  IF cell.cell_type = "markdown"
  THEN <<TRIPLE_QUOTE \o <<"\n">> \o cell.source \o <<"\n">> \o TRIPLE_QUOTE>>
  ELSE IF cell.cell_type = "code" THEN <<cell.source>>
  ELSE <<>>

write_to_py_NoNewline(nb, hash) ==
  HASH_PREFIX \o hash
    \o Join(<<"\n">> \o HEADER_COMMENT, Concat(MapSeq(ChunkOfCell, nb.nb_data.cells)))

\* the text NotebookFile.write_to_py writes
write_to_py(nb, hash) ==
  HASH_PREFIX \o hash \o <<"\n">>
    \o Join(<<"\n">> \o HEADER_COMMENT, Concat(MapSeq(ChunkOfCell, nb.nb_data.cells)))

\* extract_hash_and_chunks
extract_hash_and_chunks(content) ==
  LET lines == SplitLines(content)
      hasHash == StartsWith(content, HASH_PREFIX)
      rest == IF hasHash THEN Join(<<"\n">>, Tail(lines)) ELSE content
  IN  [hash |-> IF hasHash THEN SubSeq(lines[1], Len(HASH_PREFIX) + 1, Len(lines[1]))
                ELSE None,
       chunks |-> MapSeq(Strip, Split(rest, HEADER_COMMENT))]

\* the number of code cells among the first k cells
RECURSIVE CodeCellsUpTo(_, _)
CodeCellsUpTo(cells, k) ==
  IF k = 0 THEN 0
  ELSE CodeCellsUpTo(cells, k - 1) + (IF cells[k].cell_type = "code" THEN 1 ELSE 0)

\* NotebookFile.execute when the run succeeds: the execution collaborator gives
\* every code cell its outputs and its execution count, sources untouched
execute(nb) ==
  [nb EXCEPT !.nb_data.cells =
     [k \in 1..Len(nb.nb_data.cells) |->
        IF nb.nb_data.cells[k].cell_type = "code"
        THEN [nb.nb_data.cells[k] EXCEPT !.outputs = <<"output">>,
                                         !.execution_count = <<CodeCellsUpTo(nb.nb_data.cells, k)>>]
        ELSE nb.nb_data.cells[k]]]

(***************************************************************************)
(* State.                                                                  *)
(***************************************************************************)
VARIABLES
  environ,    \* the environment: a function of the settings that are set
  fs,         \* the files: path -> <<>> (no file) or <<content>>
  pc,         \* where main is: start, loop, write_nb, write_py, done, exit, raised
  all_stems,  \* the stems the for loop of main has still to visit
  stem,       \* the stem of the current iteration
  nb,         \* the NotebookFile process_file_pair returned
  status,     \* how the run ended: "" or the fatal condition
  runs,       \* the number of runs of main started
  log,        \* history: the branches taken, executions and writes, in order
  prev_fs,    \* history: the files as the previous run of main left them
  conv        \* the conversion specification: [doc, flat, back]

vars == <<environ, fs, pc, all_stems, stem, nb, status, runs, log, prev_fs, conv>>

mainVars == <<environ, fs, pc, all_stems, stem, nb, status, runs, log, prev_fs>>

NoFile == <<>>

Stems == {"X", "Y"}

Dirs == {"d1", "d2"}

Paths == Dirs \X Stems \X {"py", "ipynb"}

\* Path.exists
Exists(path) == fs[path] # NoFile

\* the stems of dir.glob("*." + suffix)
Glob(dir, suffix) == {s \in Stems : Exists(<<dir, s, suffix>>)}

\* load_python_file
load_python_file(path) == extract_hash_and_chunks(fs[path][1])

\* load_notebook
load_notebook(path) == [path |-> path, nb_data |-> fs[path][1]]

NoNotebook == [path |-> <<"", "", "">>, nb_data |-> [cells |-> <<>>, metadata |-> ""]]

(***************************************************************************)
(* process_file_pair: what it returns or how it ends, whether it ran the   *)
(* execution collaborator, and the branch it took.  ok tells whether the   *)
(* execution collaborator succeeds when it is run.                         *)
(***************************************************************************)
Returned(branch, file, executed) ==
  [kind |-> "return", branch |-> branch, nb |-> file, executed |-> executed]

Ended(kind, branch, executed) ==
  [kind |-> kind, branch |-> branch, nb |-> NoNotebook, executed |-> executed]

UnrecognizedOutcome_Conflict == Ended("exit", "Conflict", FALSE)

\* lines 162-167: the flat file carries no fingerprint
UnrecognizedOutcome == Ended("exit", "UnrecognizedFlatFile", FALSE)

\* lines 168-170: no change, the loaded notebook is returned
NoChangeOutcome(loaded) == Returned("no_change", loaded, FALSE)

NotebookChangedOutcome_Executes(loaded) == Returned("notebook_changed", execute(loaded), TRUE)

\* lines 171-174: the notebook changed, it is returned as loaded
NotebookChangedOutcome(loaded) == Returned("notebook_changed", loaded, FALSE)

PythonChangedOutcome_NoExecute(nb_from_py, ok) ==
  Returned("python_changed", nb_from_py, FALSE)

\* lines 175-179: the flat file changed, its document is executed and returned
PythonChangedOutcome(nb_from_py, ok) ==
  IF ok THEN Returned("python_changed", execute(nb_from_py), TRUE)
  ELSE Ended("raised", "ExecutionFailure", TRUE)

ConflictOutcome_NotebookByDefault(loaded) == Returned("conflict", loaded, FALSE)

\* lines 180-184: both changed
ConflictOutcome(loaded) == Ended("exit", "Conflict", FALSE)

\* the decision of lines 158-184, both files loaded
Decide(ref_hash, loaded, nb_from_py, ok) ==
  LET nb_hash == compute_hash(loaded)
      py_hash == compute_hash(nb_from_py)
  IN  IF ref_hash = None THEN UnrecognizedOutcome
      ELSE IF ref_hash = nb_hash /\ nb_hash = py_hash THEN NoChangeOutcome(loaded)
      ELSE IF ref_hash = py_hash /\ ref_hash # nb_hash THEN NotebookChangedOutcome(loaded)
      ELSE IF ref_hash = nb_hash /\ ref_hash # py_hash
        THEN PythonChangedOutcome(nb_from_py, ok)
      ELSE ConflictOutcome(loaded)

\* lines 135-139: only the notebook exists, it is returned as loaded
OnlyNotebookOutcome(nb_path) == Returned("only_notebook", load_notebook(nb_path), FALSE)

OnlyPythonOutcome_NoExecute(py_path, nb_path, ok) ==
  Returned("only_python", from_code_cells(nb_path, load_python_file(py_path).chunks), FALSE)

OnlyPythonOutcome_SwallowsFailure(py_path, nb_path, ok) ==
  Returned("only_python",
           IF ok THEN execute(from_code_cells(nb_path, load_python_file(py_path).chunks))
           ELSE from_code_cells(nb_path, load_python_file(py_path).chunks),
           TRUE)

\* lines 141-147: only the flat file exists, its document is executed and returned
OnlyPythonOutcome(py_path, nb_path, ok) ==
  IF ok
  THEN Returned("only_python",
                execute(from_code_cells(nb_path, load_python_file(py_path).chunks)), TRUE)
  ELSE Ended("raised", "ExecutionFailure", TRUE)

process_file_pair(s, py_dir, nb_dir, ok) ==
  LET py_path == <<py_dir, s, "py">>
      nb_path == <<nb_dir, s, "ipynb">>
      py_exists == Exists(py_path)
      nb_exists == Exists(nb_path)
  IN  IF ~py_exists /\ nb_exists THEN OnlyNotebookOutcome(nb_path)
      ELSE IF ~nb_exists /\ py_exists THEN OnlyPythonOutcome(py_path, nb_path, ok)
      ELSE IF ~(nb_exists /\ py_exists) THEN Ended("raised", "AssertionError", FALSE)
      ELSE Decide(load_python_file(py_path).hash, load_notebook(nb_path),
                  from_code_cells(nb_path, load_python_file(py_path).chunks), ok)

(***************************************************************************)
(* main                                                                    *)
(***************************************************************************)
Event(op, s, arg) == [op |-> op, stem |-> s, arg |-> arg, run |-> runs]

PY_DIR == environ["SCRIPT_DIR"]

NB_DIR == environ["NOTEBOOK_DIR"]

ConfigurationMissing_Returns ==
  /\ pc = "start"
  /\ ~({"SCRIPT_DIR", "NOTEBOOK_DIR"} \subseteq DOMAIN environ)
  /\ pc' = "done"
  /\ status' = "ConfigurationMissing"
  /\ UNCHANGED <<environ, fs, all_stems, stem, nb, runs, log, prev_fs, conv>>

\* lines 191-204: a setting is missing
ConfigurationMissing ==
  /\ pc = "start"
  /\ ~({"SCRIPT_DIR", "NOTEBOOK_DIR"} \subseteq DOMAIN environ)
  /\ pc' = "exit"
  /\ status' = "ConfigurationMissing"
  /\ UNCHANGED <<environ, fs, all_stems, stem, nb, runs, log, prev_fs, conv>>

\* lines 206-212: find the stems
Scan ==
  /\ pc = "start"
  /\ {"SCRIPT_DIR", "NOTEBOOK_DIR"} \subseteq DOMAIN environ
  /\ all_stems' = Glob(NB_DIR, "py") \cup Glob(PY_DIR, "ipynb")
  /\ pc' = "loop"
  /\ UNCHANGED <<environ, fs, stem, nb, status, runs, log, prev_fs, conv>>

ProcessFilePair_SkipsFatal ==
  /\ pc = "loop"
  /\ \E s \in all_stems, ok \in BOOLEAN :
       LET r == process_file_pair(s, PY_DIR, NB_DIR, ok)
           executed == IF r.executed
                       THEN <<Event("execute", s, IF ok THEN "" ELSE "failed")>>
                       ELSE <<>>
       IN  /\ all_stems' = all_stems \ {s}
           /\ stem' = s
           /\ nb' = r.nb
           /\ log' = log \o executed \o <<Event("branch", s, r.branch)>>
           /\ pc' = IF r.kind = "return" THEN "write_nb"
                    ELSE IF r.kind = "exit" THEN "loop" ELSE r.kind
           /\ status' = IF r.kind = "return" THEN status ELSE r.branch
  /\ UNCHANGED <<environ, fs, runs, prev_fs, conv>>

\* line 216: the next stem of the for loop, in any order, and its process_file_pair
ProcessFilePair ==
  /\ pc = "loop"
  /\ \E s \in all_stems, ok \in BOOLEAN :
       LET r == process_file_pair(s, PY_DIR, NB_DIR, ok)
           executed == IF r.executed
                       THEN <<Event("execute", s, IF ok THEN "" ELSE "failed")>>
                       ELSE <<>>
       IN  /\ all_stems' = all_stems \ {s}
           /\ stem' = s
           /\ nb' = r.nb
           /\ log' = log \o executed \o <<Event("branch", s, r.branch)>>
           /\ pc' = IF r.kind = "return" THEN "write_nb" ELSE r.kind
           /\ status' = IF r.kind = "return" THEN status ELSE r.branch
  /\ UNCHANGED <<environ, fs, runs, prev_fs, conv>>

\* lines 219-220: nb.write()
WriteNotebook ==
  /\ pc = "write_nb"
  /\ fs' = [fs EXCEPT ![nb.path] = <<nb.nb_data>>]
  /\ log' = Append(log, Event("write", stem, "ipynb"))
  /\ pc' = "write_py"
  /\ UNCHANGED <<environ, all_stems, stem, nb, status, runs, prev_fs, conv>>

WritePython_EmptyHash ==
  /\ pc = "write_py"
  /\ fs' = [fs EXCEPT ![<<PY_DIR, stem, "py">>] = <<write_to_py(nb, <<>>)>>]
  /\ log' = Append(log, Event("write", stem, "py"))
  /\ pc' = "loop"
  /\ UNCHANGED <<environ, all_stems, stem, nb, status, runs, prev_fs, conv>>

WritePython_WrongStem ==
  /\ pc = "write_py"
  /\ fs' = [fs EXCEPT ![<<PY_DIR, "X", "py">>] = <<write_to_py(nb, compute_hash(nb))>>]
  /\ log' = Append(log, Event("write", stem, "py"))
  /\ pc' = "loop"
  /\ UNCHANGED <<environ, all_stems, stem, nb, status, runs, prev_fs, conv>>

\* lines 221-223: nb.write_to_py(py_path, nb.compute_hash())
WritePython ==
  /\ pc = "write_py"
  /\ fs' = [fs EXCEPT ![<<PY_DIR, stem, "py">>] = <<write_to_py(nb, compute_hash(nb))>>]
  /\ log' = Append(log, Event("write", stem, "py"))
  /\ pc' = "loop"
  /\ UNCHANGED <<environ, all_stems, stem, nb, status, runs, prev_fs, conv>>

\* the for loop is exhausted: main returns
Finish ==
  /\ pc = "loop"
  /\ all_stems = {}
  /\ pc' = "done"
  /\ UNCHANGED <<environ, fs, all_stems, stem, nb, status, runs, log, prev_fs, conv>>

\* the command is run again on the files the last run left, with no edit
Rerun ==
  /\ pc = "done"
  /\ runs < MaxRuns
  /\ runs' = runs + 1
  /\ prev_fs' = fs
  /\ pc' = "start"
  /\ UNCHANGED <<environ, fs, all_stems, stem, nb, status, log, conv>>

(***************************************************************************)
(* The inputs of a run: the environment and the files main finds.          *)
(***************************************************************************)
\* a code cell as the execution collaborator leaves it
ExecutedCell(text) == [cell_type |-> "code", metadata |-> <<>>, source |-> text,
                       outputs |-> <<"output">>, execution_count |-> <<1>>]

Notebook(cells) == [cells |-> cells, metadata |-> "python3"]

\* file at no path, to hash the documents of the inputs
Hash(nb_data) == compute_hash([path |-> <<"", "", "">>, nb_data |-> nb_data])

DocA == Notebook(<<ExecutedCell(<<"a">>)>>)

DocB == Notebook(<<ExecutedCell(<<"b">>)>>)

DocMarkdown == Notebook(<<MarkdownCell(<<"\n", "a", "\n">>)>>)

DocMixed == Notebook(<<MarkdownCell(<<"a">>), ExecutedCell(<<"a">>)>>)

\* the contents of <stem>.ipynb
NotebookInputs == {DocA, DocB, DocMarkdown, DocMixed}

\* the flat bodies: one code chunk a, one code chunk b, one markdown chunk
BodyInputs == {<<"a">>, <<"b">>, TRIPLE_QUOTE \o <<"\n", "a", "\n">> \o TRIPLE_QUOTE}

\* the fingerprints a flat file may carry, the empty one included
StoredHashInputs == {Hash(DocA), Hash(DocB), Hash(DocMarkdown), <<>>}

\* the contents of <stem>.py: with the annotation line, or without it
PythonInputs ==
  {HASH_PREFIX \o h \o <<"\n">> \o b : h \in StoredHashInputs, b \in BodyInputs}
    \cup {<<"a">>}

\* the contents of the second stem's files
SecondPythonInputs == {HASH_PREFIX \o Hash(DocA) \o <<"\n">> \o <<"a">>, <<"a">>}

SecondNotebookInputs == {DocA}

Optional(S) == {NoFile} \cup {<<x>> : x \in S}

\* the stray files: flat files in the notebook directory and notebooks in the
\* flat directory; they are the files of the pairs when the directories are one
StrayFiles(nb_dir) ==
  IF nb_dir = "d1" THEN {{}}
  ELSE SUBSET {<<"d2", "X", "py">>, <<"d2", "Y", "py">>, <<"d1", "X", "ipynb">>}

\* the file system: flat files in d1, notebooks in nb_dir
FileSystem(nb_dir, xpy, xnb, ypy, ynb, stray) ==
  [p \in Paths |->
     IF p = <<"d1", "X", "py">> THEN xpy
     ELSE IF p = <<nb_dir, "X", "ipynb">> THEN xnb
     ELSE IF p = <<"d1", "Y", "py">> THEN ypy
     ELSE IF p = <<nb_dir, "Y", "ipynb">> THEN ynb
     ELSE IF p \in stray THEN (IF p[3] = "py" THEN <<<<"a">>>> ELSE <<DocA>>)
     ELSE NoFile]

Environments(nb_dir) ==
  LET full == [k \in {"SCRIPT_DIR", "NOTEBOOK_DIR"} |->
                 IF k = "SCRIPT_DIR" THEN "d1" ELSE nb_dir]
  IN  {[k \in keys |-> full[k]] : keys \in SUBSET {"SCRIPT_DIR", "NOTEBOOK_DIR"}}

NoConv == [doc |-> NoNotebook, flat |-> NoFile, back |-> NoFile]

Init ==
  /\ \E nb_dir \in Dirs :
       /\ environ \in Environments(nb_dir)
       /\ \E xpy \in Optional(PythonInputs), xnb \in Optional(NotebookInputs),
             ypy \in Optional(SecondPythonInputs), ynb \in Optional(SecondNotebookInputs),
             stray \in StrayFiles(nb_dir) :
            fs = FileSystem(nb_dir, xpy, xnb, ypy, ynb, stray)
  /\ pc = "start"
  /\ all_stems = {}
  /\ stem = ""
  /\ nb = NoNotebook
  /\ status = ""
  /\ runs = 1
  /\ log = <<>>
  /\ prev_fs = fs
  /\ conv = NoConv

Next ==
  \/ ConfigurationMissing
  \/ Scan
  \/ ProcessFilePair
  \/ WriteNotebook
  \/ WritePython
  \/ Finish
  \/ Rerun

Spec == Init /\ [][Next]_vars

(***************************************************************************)
(* The conversion specification: a structured document is written with     *)
(* write_to_py and read back with extract_hash_and_chunks and              *)
(* from_code_cells.                                                        *)
(***************************************************************************)
ConvAlphabet == {"a", " ", "\n"}

\* texts that collide with the delimiter or the bracket
SpecialTexts ==
  {TRIPLE_QUOTE, TRIPLE_QUOTE \o <<"a">>, <<"a">> \o TRIPLE_QUOTE,
   <<"#", " ", "%", "%">>, HEADER_COMMENT \o <<"a">>}

ConvTexts == UNION {[1..k -> ConvAlphabet] : k \in 0..MaxLen} \cup SpecialTexts

ConvCells == {MarkdownCell(t) : t \in ConvTexts} \cup {CodeCell(t) : t \in ConvTexts}

ConvDocs == UNION {[1..k -> ConvCells] : k \in 0..MaxCells}

ConvPath == <<"d2", "X", "ipynb">>

ConvInit ==
  /\ conv \in {[doc |-> [path |-> ConvPath, nb_data |-> Notebook(cells)],
                flat |-> NoFile, back |-> NoFile] : cells \in ConvDocs}
  /\ environ = [k \in {"SCRIPT_DIR", "NOTEBOOK_DIR"} |-> IF k = "SCRIPT_DIR" THEN "d1" ELSE "d2"]
  /\ fs = [p \in Paths |-> NoFile]
  /\ pc = "done"
  /\ all_stems = {}
  /\ stem = ""
  /\ nb = NoNotebook
  /\ status = ""
  /\ runs = 1
  /\ log = <<>>
  /\ prev_fs = fs

\* the document is written with write_to_py under its own fingerprint
ConvWrite ==
  /\ conv.flat = NoFile
  /\ conv' = [conv EXCEPT !.flat = <<write_to_py(conv.doc, compute_hash(conv.doc))>>]
  /\ UNCHANGED mainVars

\* the flat text is read back: extract_hash_and_chunks, then from_code_cells
ConvRead ==
  /\ conv.flat # NoFile
  /\ conv.back = NoFile
  /\ conv' = [conv EXCEPT !.back =
                <<from_code_cells(ConvPath, extract_hash_and_chunks(conv.flat[1]).chunks)>>]
  /\ UNCHANGED mainVars

ConvNext == ConvWrite \/ ConvRead

SpecConv == ConvInit /\ [][ConvNext]_vars

(***************************************************************************)
(* Vocabulary of the properties.                                           *)
(***************************************************************************)
PyPath(s) == <<PY_DIR, s, "py">>

NbPath(s) == <<NB_DIR, s, "ipynb">>

BothExist(s) == Exists(PyPath(s)) /\ Exists(NbPath(s))

\* the three fingerprints of a pair whose two files exist
RefHash(s) == load_python_file(PyPath(s)).hash

NbHash(s) == compute_hash(load_notebook(NbPath(s)))

NbFromPy(s) == from_code_cells(NbPath(s), load_python_file(PyPath(s)).chunks)

PyHash(s) == compute_hash(NbFromPy(s))

\* the positions of the log where op happened to stem s in run r
EventsOf(op, s, r) ==
  {i \in DOMAIN log : log[i].op = op /\ log[i].stem = s /\ log[i].run = r}

\* the branch process_file_pair took for stem s in run r, "" when it took none
BranchOf(s, r) ==
  IF EventsOf("branch", s, r) = {} THEN ""
  ELSE log[CHOOSE i \in EventsOf("branch", s, r) : TRUE].arg

\* process_file_pair has just ended for the current stem: the files are still
\* the ones it read
JustProcessed == pc \in {"write_nb", "exit", "raised"} /\ stem # ""

Untouched(s) == fs[PyPath(s)] = prev_fs[PyPath(s)] /\ fs[NbPath(s)] = prev_fs[NbPath(s)]

FatalConditions == {"UnrecognizedFlatFile", "Conflict"}

(***************************************************************************)
(* C1                                                                      *)
(***************************************************************************)
ConflictCase(s) ==
  /\ BothExist(s)
  /\ RefHash(s) # None
  /\ RefHash(s) # NbHash(s)
  /\ RefHash(s) # PyHash(s)

\* C1: when both files of an identity exist and the stored fingerprint differs
\* from the structured and from the flat fingerprint, process_file_pair ends in
\* Conflict: nothing was executed, no file of the identity is written, and the
\* run takes no further step.
C1_ConflictIsFatal ==
  /\ []((JustProcessed /\ ConflictCase(stem)) =>
          /\ pc = "exit"
          /\ status = "Conflict"
          /\ EventsOf("execute", stem, runs) = {}
          /\ EventsOf("write", stem, runs) = {}
          /\ Untouched(stem))
  /\ [][~(pc = "exit" /\ status = "Conflict")]_vars

\* a Conflict whose structured and flat fingerprints agree with each other
C1_Witness ==
  /\ pc = "exit"
  /\ status = "Conflict"
  /\ ConflictCase(stem)
  /\ NbHash(stem) = PyHash(stem)
  /\ Untouched(stem)

(***************************************************************************)
(* C2                                                                      *)
(***************************************************************************)
UnrecognizedCase(s) ==
  /\ BothExist(s)
  /\ ~StartsWith(fs[PyPath(s)][1], HASH_PREFIX)

\* C2: when both files of an identity exist and the flat file does not begin
\* with the NOTEBOOK_HASH annotation, process_file_pair ends in
\* UnrecognizedFlatFile whatever the structured file holds: nothing was
\* executed, no file of the identity is written, and the run takes no further
\* step.
C2_MissingAnnotationIsFatal ==
  /\ []((JustProcessed /\ UnrecognizedCase(stem)) =>
          /\ pc = "exit"
          /\ status = "UnrecognizedFlatFile"
          /\ EventsOf("execute", stem, runs) = {}
          /\ EventsOf("write", stem, runs) = {}
          /\ Untouched(stem))
  /\ [][~(pc = "exit" /\ status = "UnrecognizedFlatFile")]_vars

C2_Witness ==
  /\ pc = "exit"
  /\ status = "UnrecognizedFlatFile"
  /\ UnrecognizedCase(stem)
  /\ fs[NbPath(stem)] = <<DocMixed>>
  /\ Untouched(stem)

(***************************************************************************)
(* C3                                                                      *)
(***************************************************************************)
PythonChangedCase(s) ==
  /\ BothExist(s)
  /\ RefHash(s) = NbHash(s)
  /\ RefHash(s) # PyHash(s)

\* C3: when both files exist and the stored fingerprint equals the structured
\* fingerprint but not the flat one, process_file_pair returns the document
\* converted from the flat file, after the execution collaborator ran on it
\* exactly once, and no file of the identity was written before that.
C3_FlatAuthoritativeExecutedOnce ==
  /\ (pc = "write_nb" /\ PythonChangedCase(stem)) =>
        /\ nb = execute(NbFromPy(stem))
        /\ Cardinality(EventsOf("execute", stem, runs)) = 1
        /\ EventsOf("write", stem, runs) = {}
  /\ \A s \in Stems, r \in 1..runs :
        BranchOf(s, r) = "python_changed" =>
          /\ Cardinality(EventsOf("execute", s, r)) = 1
          /\ \A e \in EventsOf("execute", s, r), w \in EventsOf("write", s, r) : e < w

C3_Witness ==
  /\ pc = "loop"
  /\ BranchOf(stem, runs) = "python_changed"
  /\ Cardinality(EventsOf("write", stem, runs)) = 2
  /\ prev_fs[NbPath(stem)] = <<DocA>>
  /\ fs[NbPath(stem)] = <<execute(from_code_cells(NbPath(stem), <<<<"b">>>>)).nb_data>>

(***************************************************************************)
(* C4                                                                      *)
(***************************************************************************)
NotebookChangedCase(s) ==
  /\ BothExist(s)
  /\ RefHash(s) = PyHash(s)
  /\ RefHash(s) # NbHash(s)

\* C4: when both files exist and the stored fingerprint equals the flat
\* fingerprint but not the structured one, process_file_pair returns the
\* structured document as loaded, nothing is executed, and the flat file is
\* then rewritten from that document.
C4_StructuredAuthoritative ==
  [][/\ (pc = "write_nb" /\ NotebookChangedCase(stem)) =>
          /\ nb = load_notebook(NbPath(stem))
          /\ EventsOf("execute", stem, runs) = {}
          /\ BranchOf(stem, runs) = "notebook_changed"
     /\ (pc = "write_py" /\ BranchOf(stem, runs) = "notebook_changed") =>
          /\ nb.nb_data = prev_fs[NbPath(stem)][1]
          /\ fs'[PyPath(stem)] = <<write_to_py(nb, compute_hash(nb))>>
          /\ EventsOf("execute", stem, runs)' = {}]_vars

C4_Witness ==
  /\ pc = "loop"
  /\ BranchOf(stem, runs) = "notebook_changed"
  /\ prev_fs[NbPath(stem)] = <<DocB>>
  /\ prev_fs[PyPath(stem)] = <<HASH_PREFIX \o Hash(DocA) \o <<"\n", "a">>>>
  /\ fs[PyPath(stem)] = <<HASH_PREFIX \o Hash(DocB) \o <<"\n", "b">>>>

(***************************************************************************)
(* C5                                                                      *)
(***************************************************************************)
\* the second run has ended; prev_fs holds the files as the first run left them
SecondRunDone == pc = "done" /\ runs = 2

\* C5: if neither representation changed since the last sync (the first pass
\* took the no-change branch), the second pass leaves the structured and the
\* flat file exactly as the first pass wrote them.
C5_NoOpConvergence ==
  SecondRunDone =>
    \A s \in Stems : BranchOf(s, 1) = "no_change" => Untouched(s)

(***************************************************************************)
(* C6                                                                      *)
(***************************************************************************)
Contains(text, token) == Find(text, token) # 0

\* the texts the round-trip property allows: no delimiter, and for markdown no
\* bracket at the start or the end
RoundTripCell(cell) ==
  /\ ~Contains(cell.source, <<"#", " ", "%", "%">>)
  /\ cell.cell_type = "markdown" =>
       /\ ~StartsWith(cell.source, TRIPLE_QUOTE)
       /\ ~EndsWith(cell.source, TRIPLE_QUOTE)

RoundTripDoc(doc) ==
  \A k \in DOMAIN doc.nb_data.cells : RoundTripCell(doc.nb_data.cells[k])

\* C6: a document of markdown and code cells whose texts hold neither the
\* delimiter nor, for markdown, the bracket at their start or end, written with
\* write_to_py and read back, has the fingerprint of the original.
C6_RoundTripFingerprint ==
  (conv.back # NoFile /\ RoundTripDoc(conv.doc)) =>
     compute_hash(conv.back[1]) = compute_hash(conv.doc)

(***************************************************************************)
(* C7                                                                      *)
(***************************************************************************)
\* the first run has ended without a fatal condition; prev_fs holds the files
\* it started from
FirstRunDone == pc = "done" /\ runs = 1

\* C7: a run of main that ends without a fatal condition has reconciled every
\* identity with a .py file in the flat directory or an .ipynb file in the
\* structured directory, and both files of each such identity exist.
C7_EveryIdentityReconciled ==
  FirstRunDone =>
    \A s \in Stems :
      (prev_fs[PyPath(s)] # NoFile \/ prev_fs[NbPath(s)] # NoFile) =>
         /\ BranchOf(s, 1) # ""
         /\ BothExist(s)

(***************************************************************************)
(* C8                                                                      *)
(***************************************************************************)
\* the pass of the current stem has just written its two files
JustPassed ==
  /\ pc = "loop"
  /\ stem # ""
  /\ log # <<>>
  /\ log[Len(log)] = Event("write", stem, "py")

\* C8: when only the structured file of an identity exists, its pass executes
\* nothing and writes a flat file whose NOTEBOOK_HASH is the fingerprint of the
\* structured document.
C8_OnlyNotebook ==
  (/\ JustPassed
   /\ prev_fs[PyPath(stem)] = NoFile
   /\ prev_fs[NbPath(stem)] # NoFile) =>
     /\ EventsOf("execute", stem, runs) = {}
     /\ Exists(PyPath(stem))
     /\ load_python_file(PyPath(stem)).hash = Hash(prev_fs[NbPath(stem)][1])
     /\ fs[NbPath(stem)] = prev_fs[NbPath(stem)]

C8_Witness ==
  /\ JustPassed
  /\ prev_fs[PyPath(stem)] = NoFile
  /\ prev_fs[NbPath(stem)] = <<DocMixed>>
  /\ load_python_file(PyPath(stem)).hash = Hash(DocMixed)

(***************************************************************************)
(* C9                                                                      *)
(***************************************************************************)
\* C9: when only the flat file of an identity exists, its pass builds a
\* document with one cell per chunk, runs the execution collaborator on it
\* exactly once before any write, and writes it together with a flat file
\* whose NOTEBOOK_HASH is the fingerprint of the written structured document.
C9_OnlyPython ==
  (/\ JustPassed
   /\ prev_fs[PyPath(stem)] # NoFile
   /\ prev_fs[NbPath(stem)] = NoFile) =>
     LET chunks == extract_hash_and_chunks(prev_fs[PyPath(stem)][1]).chunks
     IN  /\ BothExist(stem)
         /\ Len(fs[NbPath(stem)][1].cells) = Len(chunks)
         /\ fs[NbPath(stem)][1] = execute(from_code_cells(NbPath(stem), chunks)).nb_data
         /\ Cardinality(EventsOf("execute", stem, runs)) = 1
         /\ \A e \in EventsOf("execute", stem, runs), w \in EventsOf("write", stem, runs) :
              e < w
         /\ load_python_file(PyPath(stem)).hash = NbHash(stem)

C9_Witness ==
  /\ JustPassed
  /\ prev_fs[PyPath(stem)] = <<<<"a">>>>
  /\ prev_fs[NbPath(stem)] = NoFile
  /\ fs[NbPath(stem)] = <<DocA>>
  /\ fs[PyPath(stem)] = <<HASH_PREFIX \o Hash(DocA) \o <<"\n", "a">>>>

(***************************************************************************)
(* C10                                                                     *)
(***************************************************************************)
\* the stems whose pass completed in the current run
PassedStems == {s \in Stems : Cardinality(EventsOf("write", s, runs)) = 2}

\* C10: the run ends at the first identity that ends in UnrecognizedFlatFile or
\* Conflict: main takes no further step, the files of that identity and of the
\* identities not yet visited are as the run found them, and the identities
\* visited before keep the two files their pass wrote.
C10_FirstFatalEndsRun ==
  /\ [](status \in FatalConditions =>
          /\ pc = "exit"
          /\ \A s \in all_stems \cup {stem} :
               /\ Untouched(s)
               /\ EventsOf("write", s, runs) = {}
          /\ \A s \in PassedStems :
               /\ BothExist(s)
               /\ fs[PyPath(s)] = <<write_to_py(load_notebook(NbPath(s)), NbHash(s))>>)
  /\ [][~(status \in FatalConditions)]_vars

C10_Witness ==
  /\ pc = "exit"
  /\ status \in FatalConditions
  /\ PassedStems # {}
  /\ all_stems = {}
  /\ \E s \in PassedStems : ~Untouched(s)

(***************************************************************************)
(* C11                                                                     *)
(***************************************************************************)
\* the execution collaborator failed on the document of stem s in run r
FailedExecution(s, r) == \E i \in EventsOf("execute", s, r) : log[i].arg = "failed"

\* C11: when the execution collaborator fails on a flat-only document or on a
\* newly authoritative flat document, the run ends there and neither file of
\* that identity is written in that run.
C11_ExecutionFailureWritesNothing ==
  /\ [](\A s \in Stems, r \in 1..runs :
          FailedExecution(s, r) =>
            /\ r = runs
            /\ pc = "raised"
            /\ status = "ExecutionFailure"
            /\ EventsOf("write", s, r) = {}
            /\ Untouched(s))
  /\ [][~(pc = "raised")]_vars

\* the execution of a flat-only document failed
C11_Witness ==
  /\ pc = "raised"
  /\ FailedExecution(stem, runs)
  /\ fs[PyPath(stem)] # NoFile
  /\ fs[NbPath(stem)] = NoFile

(***************************************************************************)
(* C12                                                                     *)
(***************************************************************************)
HexDigits == {"0", "1", "2", "3", "4", "5", "6", "7", "8", "9",
              "a", "b", "c", "d", "e", "f"}

\* a well-formed fingerprint: hexadecimal digits, at least one
WellFormedHash(h) == h # <<>> /\ \A k \in DOMAIN h : h[k] \in HexDigits

\* the annotation of a flat text is present and well-formed
WellFormedAnnotation(content) ==
  /\ StartsWith(content, HASH_PREFIX)
  /\ WellFormedHash(SubSeq(SplitLines(content)[1], Len(HASH_PREFIX) + 1,
                           Len(SplitLines(content)[1])))

\* C12: a flat file whose annotation is absent or malformed yields no stored
\* fingerprint, and a pair with such a flat file ends in UnrecognizedFlatFile.
C12_MalformedAnnotationIsUnrecognized ==
  (/\ JustProcessed
   /\ BothExist(stem)
   /\ ~WellFormedAnnotation(fs[PyPath(stem)][1])) =>
     /\ RefHash(stem) = None
     /\ status = "UnrecognizedFlatFile"

(***************************************************************************)
(* C13                                                                     *)
(***************************************************************************)
\* no text of the document holds the delimiter or the bracket
TokenFreeDoc(doc) ==
  \A k \in DOMAIN doc.nb_data.cells :
    /\ ~Contains(doc.nb_data.cells[k].source, <<"#", " ", "%", "%">>)
    /\ ~Contains(doc.nb_data.cells[k].source, TRIPLE_QUOTE)

\* C13: a document of markdown and code cells whose texts hold neither the
\* delimiter nor the bracket, the empty document and empty cells included,
\* written with write_to_py and read back, has the same number of cells, each
\* of the type of the original cell at its place.
C13_CellStructureKept ==
  (conv.back # NoFile /\ TokenFreeDoc(conv.doc)) =>
     /\ Len(conv.back[1].nb_data.cells) = Len(conv.doc.nb_data.cells)
     /\ \A k \in DOMAIN conv.doc.nb_data.cells :
          conv.back[1].nb_data.cells[k].cell_type = conv.doc.nb_data.cells[k].cell_type

(***************************************************************************)
(* C14                                                                     *)
(***************************************************************************)
SettingMissing == ~({"SCRIPT_DIR", "NOTEBOOK_DIR"} \subseteq DOMAIN environ)

\* C14: when SCRIPT_DIR or NOTEBOOK_DIR is not set, main ends with
\* ConfigurationMissing and takes no further step: no directory was scanned,
\* no document loaded or executed, no file written.
C14_ConfigurationMissingFirst ==
  /\ [](SettingMissing =>
          /\ pc \in {"start", "exit"}
          /\ pc = "exit" => status = "ConfigurationMissing"
          /\ all_stems = {}
          /\ stem = ""
          /\ log = <<>>
          /\ fs = prev_fs)
  /\ [](status = "ConfigurationMissing" => SettingMissing /\ pc = "exit")
  /\ [][~(status = "ConfigurationMissing")]_vars

\* NOTEBOOK_DIR alone is missing and there are files to reconcile
C14_Witness ==
  /\ pc = "exit"
  /\ status = "ConfigurationMissing"
  /\ DOMAIN environ = {"SCRIPT_DIR"}
  /\ fs[<<"d1", "X", "py">>] # NoFile
  /\ fs[<<"d1", "X", "ipynb">>] # NoFile

(***************************************************************************)
(* C15                                                                     *)
(***************************************************************************)
\* C15: the assertion of line 149 never fails in a run of main: every stem
\* main passes to process_file_pair has its flat file or its notebook.
C15_AssertionNeverFails ==
  /\ status # "AssertionError"
  /\ JustProcessed => (Exists(PyPath(stem)) \/ Exists(NbPath(stem)))

(***************************************************************************)
(* C16                                                                     *)
(***************************************************************************)
\* the pass of stem s completed in run r
Passed(s, r) == Cardinality(EventsOf("write", s, r)) = 2

\* C16: after a pass that completed, both files of the identity exist and the
\* NOTEBOOK_HASH of the flat file is the fingerprint of the structured file;
\* the pass of the next run, with no edit in between, ends neither in Conflict
\* nor in UnrecognizedFlatFile.
C16_PassLeavesPairInSync ==
  /\ JustPassed => (BothExist(stem) /\ RefHash(stem) = NbHash(stem))
  /\ \A s \in Stems, r \in 2..runs :
       Passed(s, r - 1) => BranchOf(s, r) \notin FatalConditions

\* the second pass of an identity has been decided after a completed first one
C16_Witness ==
  /\ runs = 2
  /\ Passed(stem, 1)
  /\ BranchOf(stem, 2) = "python_changed"
  /\ JustPassed
  /\ RefHash(stem) = NbHash(stem)

(***************************************************************************)
(* C17                                                                     *)
(***************************************************************************)
\* C17: a pass that follows a completed pass of the same identity with no edit
\* in between takes the no-change branch, executes nothing and leaves both
\* files as they were.
C17_SecondPassIsNoChange ==
  \A s \in Stems :
    (runs = 2 /\ Passed(s, 1) /\ BranchOf(s, 2) # "") =>
       /\ BranchOf(s, 2) = "no_change"
       /\ EventsOf("execute", s, 2) = {}
       /\ Untouched(s)

(***************************************************************************)
(* C18                                                                     *)
(***************************************************************************)
\* the decision table of the reconciliation, on the two files of one identity
ExpectedBranch(py, ipynb) ==
  LET flat == extract_hash_and_chunks(py[1])
      nb_fp == Hash(ipynb[1])
      py_fp == Hash(from_code_cells(<<"", "", "">>, flat.chunks).nb_data)
  IN  IF py = NoFile /\ ipynb = NoFile THEN "AssertionError"
      ELSE IF py = NoFile THEN "only_notebook"
      ELSE IF ipynb = NoFile THEN "only_python"
      ELSE IF flat.hash = None THEN "UnrecognizedFlatFile"
      ELSE IF flat.hash = nb_fp /\ flat.hash = py_fp THEN "no_change"
      ELSE IF flat.hash = py_fp THEN "notebook_changed"
      ELSE IF flat.hash = nb_fp THEN "python_changed"
      ELSE "Conflict"

\* C18: a step of main changes no file but the two files of the identity it is
\* processing, and the branch taken for an identity is the one its own two
\* files, as the run found them, call for (or the failure of the execution
\* that branch asks for), whatever the other identities and the order.
C18_IdentitiesIndependent ==
  /\ [](\A s \in Stems :
          BranchOf(s, runs) # "" =>
            BranchOf(s, runs) \in
              {ExpectedBranch(prev_fs[PyPath(s)], prev_fs[NbPath(s)]), "ExecutionFailure"})
  /\ [][\A p \in Paths : fs'[p] # fs[p] => p \in {PyPath(stem), NbPath(stem)}]_vars

\* both identities were processed, Y first, and each has its own files
C18_Witness ==
  /\ pc = "loop"
  /\ runs = 1
  /\ PassedStems = Stems
  /\ stem = "X"
  /\ BranchOf("Y", 1) = "only_python"
  /\ BranchOf("X", 1) = "notebook_changed"
  /\ fs[NbPath("Y")] = <<DocA>>
  /\ fs[NbPath("X")] = <<DocB>>
====
